---------------------------- MODULE Spec2Model ----------------------------
(***************************************************************************)
(* A model of eurostat_intra_eu_trade_2022.py: the reshaping of the wide   *)
(* Eurostat tables (process_road_euro_stat), the corrected country table   *)
(* (get_country_codes), the left join on a code column (merge_and_rename)  *)
(* and the module-level script that filters the three tables and adds up   *)
(* the Belgium/France flows.                                               *)
(*                                                                         *)
(* A Python string is a sequence of one-character strings, so that         *)
(* str.split, str.strip and str.len are computed and not assumed.  A       *)
(* DataFrame is a record [columns, rows]: the column labels in order, and  *)
(* the rows in index order, each row the sequence of its cells.  The float *)
(* NaN of a numeric column is the number NaN; the missing value of an      *)
(* object (string) column is the one-element sequence None.                *)
(***************************************************************************)
EXTENDS Integers, Sequences, FiniteSets, TLC

VARIABLES
    rs_pc, rs_df, rs_cols, rs_first_col, rs_res,  \* a call of process_road_euro_stat
    excel,                                        \* the sheet data/country_code.xlsx
    cc_pc, country_codes,                         \* a call of get_country_codes
    mg_pc, mg_df, mg_on, mg_new, mg_res,          \* a call of merge_and_rename
    tsv,                                          \* the three .tsv files, as read_csv reads them
    pc, lgtt, ugtt, cross,                        \* the script: line reached, its tables
    cross_be_fr, lgtt_be_fr, ugtt_be_fr, printed, err

reshapeVars == <<rs_pc, rs_df, rs_cols, rs_first_col, rs_res>>
codesVars == <<cc_pc, country_codes>>
mergeVars == <<mg_pc, mg_df, mg_on, mg_new, mg_res>>
scriptVars == <<tsv, pc, lgtt, ugtt, cross, cross_be_fr, lgtt_be_fr, ugtt_be_fr,
                printed, err>>
vars == <<reshapeVars, codesVars, mergeVars, scriptVars, excel>>

-----------------------------------------------------------------------------
(* Bounds of the model. *)

\* Rows of a wide table.
MaxRows == 2
\* Year columns of a wide table.
MaxYears == 2
\* Spaces before, and after, a year column's name.
MaxPad == 1
\* Rows of the country sheet.
MaxCountries == 2

-----------------------------------------------------------------------------
(* Strings of the source. *)

s_freq == <<"f", "r", "e", "q">>
s_tra_type == <<"t", "r", "a", "_", "t", "y", "p", "e">>
s_c_load == <<"c", "_", "l", "o", "a", "d">>
s_c_unload == <<"c", "_", "u", "n", "l", "o", "a", "d">>
s_nst07 == <<"n", "s", "t", "0", "7">>
s_unit == <<"u", "n", "i", "t">>
s_geo == <<"g", "e", "o">>
s_TIME_PERIOD == <<"T", "I", "M", "E", "_", "P", "E", "R", "I", "O", "D">>
s_value == <<"v", "a", "l", "u", "e">>

lgtt_cols == <<s_freq, s_tra_type, s_c_unload, s_nst07, s_unit, s_geo>>
lgtt_fc == <<"f", "r", "e", "q", ",", "t", "r", "a", "_", "t", "y", "p", "e", ",", "c", "_", "u", "n", "l", "o", "a", "d", ",", "n", "s", "t", "0", "7", ",", "u", "n", "i", "t", ",", "g", "e", "o", "\\", "T", "I", "M", "E", "_", "P", "E", "R", "I", "O", "D">>
ugtt_cols == <<s_freq, s_tra_type, s_c_load, s_nst07, s_unit, s_geo>>
ugtt_fc == <<"f", "r", "e", "q", ",", "t", "r", "a", "_", "t", "y", "p", "e", ",", "c", "_", "l", "o", "a", "d", ",", "n", "s", "t", "0", "7", ",", "u", "n", "i", "t", ",", "g", "e", "o", "\\", "T", "I", "M", "E", "_", "P", "E", "R", "I", "O", "D">>
cross_cols == <<s_freq, s_tra_type, s_c_load, s_c_unload, s_nst07, s_unit, s_geo>>
cross_fc == <<"f", "r", "e", "q", ",", "t", "r", "a", "_", "t", "y", "p", "e", ",", "c", "_", "l", "o", "a", "d", ",", "c", "_", "u", "n", "l", "o", "a", "d", ",", "n", "s", "t", "0", "7", ",", "u", "n", "i", "t", ",", "g", "e", "o", "\\", "T", "I", "M", "E", "_", "P", "E", "R", "I", "O", "D">>

s_TOTAL == <<"T", "O", "T", "A", "L">>
s_THS_T == <<"T", "H", "S", "_", "T">>
s_2022 == <<"2", "0", "2", "2">>
s_Belgium == <<"B", "e", "l", "g", "i", "u", "m">>
s_France == <<"F", "r", "a", "n", "c", "e">>

s_Country == <<"C", "o", "u", "n", "t", "r", "y">>
s_Alpha2 == <<"A", "l", "p", "h", "a", "-", "2", " ", "c", "o", "d", "e">>
s_Alpha3 == <<"A", "l", "p", "h", "a", "-", "3", " ", "c", "o", "d", "e">>
s_Numeric == <<"N", "u", "m", "e", "r", "i", "c">>
s_unload_country == <<"u", "n", "l", "o", "a", "d", "_", "c", "o", "u", "n", "t", "r", "y">>
s_load_country == <<"l", "o", "a", "d", "_", "c", "o", "u", "n", "t", "r", "y">>
s_geo_country == <<"g", "e", "o", "_", "c", "o", "u", "n", "t", "r", "y">>
s_Greece == <<"G", "r", "e", "e", "c", "e">>
s_UnitedKingdom == <<"U", "n", "i", "t", "e", "d", " ", "K", "i", "n", "g", "d", "o", "m">>
s_UnitedStates == <<"U", "n", "i", "t", "e", "d", " ", "S", "t", "a", "t", "e", "s">>
s_Netherlands == <<"N", "e", "t", "h", "e", "r", "l", "a", "n", "d", "s">>
s_Moldova == <<"M", "o", "l", "d", "o", "v", "a">>
s_Kosovo == <<"K", "o", "s", "o", "v", "o">>
s_US == <<"U", "S">>
s_GB == <<"G", "B">>
s_NL == <<"N", "L">>
s_MD == <<"M", "D">>
s_EL == <<"E", "L">>
s_UK == <<"U", "K">>
s_XK == <<"X", "K">>
s_XKO == <<"X", "K", "O">>

\* The float NaN (a cell read from one of na_values, or a sum's missing term).
NaN == 0 - 1
\* The missing value of an object column (None, or NaN among strings).
None == <<"<missing>">>

-----------------------------------------------------------------------------
(* Python's str methods, on sequences of characters. *)

IsSpace(c) == c \in {" ", "\t", "\n", "\r"}

RECURSIVE LStrip(_)
LStrip(s) == IF s # <<>> /\ IsSpace(Head(s)) THEN LStrip(Tail(s)) ELSE s

RECURSIVE RStrip(_)
RStrip(s) ==
    IF s # <<>> /\ IsSpace(s[Len(s)]) THEN RStrip(SubSeq(s, 1, Len(s) - 1)) ELSE s

\* A strip that forgets the trailing spaces (what col.lstrip() would do).
StripLeadingOnly(s) == LStrip(s)

\* col.strip()
Strip(s) == RStrip(LStrip(s))

\* s.split(','): the pieces between the commas, empty pieces kept.
RECURSIVE StrSplit(_)
StrSplit(s) ==
    IF \A i \in 1..Len(s) : s[i] # ","
    THEN <<s>>
    ELSE LET i == CHOOSE k \in 1..Len(s) :
                      s[k] = "," /\ \A m \in 1..(k - 1) : s[m] # ","
         IN <<SubSeq(s, 1, i - 1)>> \o StrSplit(SubSeq(s, i + 1, Len(s)))

\* Series.str.len() of one cell: None stays missing (and equals no number).
StrLen(s) == IF s = None THEN NaN ELSE Len(s)

-----------------------------------------------------------------------------
(* The pandas operations the source uses. *)

NRows(df) == Len(df.rows)
NCols(df) == Len(df.columns)
EmptyFrame == [columns |-> <<>>, rows |-> <<>>]

SeqMax(q) == IF q = <<>> THEN 0
             ELSE CHOOSE m \in {q[i] : i \in 1..Len(q)} : \A i \in 1..Len(q) : q[i] <= m

\* Position of the first column labelled lab (0: no such column).
ColIndex(df, lab) ==
    IF \E j \in 1..NCols(df) : df.columns[j] = lab
    THEN CHOOSE j \in 1..NCols(df) :
             df.columns[j] = lab /\ \A k \in 1..(j - 1) : df.columns[k] # lab
    ELSE 0

\* df[lab]: the cells of a column, in row order.
Column(df, lab) == [i \in 1..NRows(df) |-> df.rows[i][ColIndex(df, lab)]]

\* row.lab in a frame with df's columns.
At(df, row, lab) == row[ColIndex(df, lab)]

\* The elements of q at the positions in keep (up to n), in order.
RECURSIVE SelectIdx(_, _, _)
SelectIdx(q, keep, n) ==
    IF n = 0 THEN <<>>
    ELSE SelectIdx(q, keep, n - 1) \o (IF n \in keep THEN <<q[n]>> ELSE <<>>)

\* series.str.split(',', expand=True): one column per piece, labelled 0, 1, ...;
\* as many columns as the longest row has pieces, shorter rows filled with None.
StrSplitExpand(series) ==
    LET parts == [i \in 1..Len(series) |-> StrSplit(series[i])]
        width == SeqMax([i \in 1..Len(series) |-> Len(parts[i])])
    IN [columns |-> [k \in 1..width |-> k - 1],
        rows |-> [i \in 1..Len(series) |->
                     [k \in 1..width |->
                         IF k <= Len(parts[i]) THEN parts[i][k] ELSE None]]]

\* df.drop(columns=labels)
DropColumns(df, labels) ==
    LET keep == {j \in 1..NCols(df) : df.columns[j] \notin labels}
    IN [columns |-> SelectIdx(df.columns, keep, NCols(df)),
        rows |-> [i \in 1..NRows(df) |-> SelectIdx(df.rows[i], keep, NCols(df))]]

\* pd.concat([a, b], axis=1) of two frames on the same index.
ConcatColumns(a, b) ==
    [columns |-> a.columns \o b.columns,
     rows |-> [i \in 1..NRows(a) |-> a.rows[i] \o b.rows[i]]]

\* df.columns = [col.strip() for col in df.columns]
StripColumns(df) ==
    [columns |-> [j \in 1..NCols(df) |-> Strip(df.columns[j])], rows |-> df.rows]

\* pd.melt(df, id_vars=id_vars, var_name=var_name, value_name=value_name): for
\* each column that is no id column, in column order, one row per row of df, in
\* row order, holding the row's id cells, the column's label and the cell.
Melt(df, id_vars, var_name, value_name) ==
    LET idx == [k \in 1..Len(id_vars) |-> ColIndex(df, id_vars[k])]
        isval == {j \in 1..NCols(df) :
                     df.columns[j] \notin {id_vars[k] : k \in 1..Len(id_vars)}}
        vals == SelectIdx([j \in 1..NCols(df) |-> j], isval, NCols(df))
        R == NRows(df)
    IN [columns |-> id_vars \o <<var_name, value_name>>,
        rows |-> [n \in 1..(R * Len(vals)) |->
                     LET v == vals[((n - 1) \div R) + 1]
                         i == ((n - 1) % R) + 1
                     IN [k \in 1..Len(id_vars) |-> df.rows[i][idx[k]]]
                            \o <<df.columns[v], df.rows[i][v]>>]]

-----------------------------------------------------------------------------
(* process_road_euro_stat *)

\* The function without line 22: the compound column is never dropped, and is
\* melted with the year columns.
process_keeping_first_col(df, cols, first_col) ==
    LET split_columns == StrSplitExpand(Column(df, first_col))
        named == [split_columns EXCEPT !.columns = cols]
        joined == StripColumns(ConcatColumns(named, df))
    IN IF NCols(split_columns) # Len(cols)
       THEN [err |-> "ValueError", df |-> EmptyFrame]
       ELSE [err |-> "none", df |-> Melt(joined, cols, s_TIME_PERIOD, s_value)]

\* The function if naming the split columns never failed: the first len(cols)
\* split columns are kept under the names, whatever their number.
process_without_length_check(df, cols, first_col) ==
    LET split_columns == StrSplitExpand(Column(df, first_col))
        named == [columns |-> cols,
                  rows |-> [i \in 1..NRows(df) |->
                               [k \in 1..Len(cols) |->
                                   IF k <= NCols(split_columns)
                                   THEN split_columns.rows[i][k] ELSE None]]]
        joined == StripColumns(ConcatColumns(named, DropColumns(df, {first_col})))
    IN [err |-> "none", df |-> Melt(joined, cols, s_TIME_PERIOD, s_value)]

\* The whole function: [err, df], err "none" and the melted frame, or the
\* exception raised and no frame.  Assigning len(cols) labels to a frame with
\* another number of columns raises ValueError (length mismatch); melt raises
\* KeyError for an id column the frame does not have.
process_road_euro_stat(df, cols, first_col) ==
    LET split_columns == StrSplitExpand(Column(df, first_col))
        named == [split_columns EXCEPT !.columns = cols]
        dropped == DropColumns(df, {first_col})
        joined == StripColumns(ConcatColumns(named, dropped))
        id_vars == named.columns
    IN IF NCols(split_columns) # Len(cols)
       THEN [err |-> "ValueError", df |-> EmptyFrame]
       ELSE IF \E k \in 1..Len(id_vars) : ColIndex(joined, id_vars[k]) = 0
       THEN [err |-> "KeyError", df |-> EmptyFrame]
       ELSE [err |-> "none", df |-> Melt(joined, id_vars, s_TIME_PERIOD, s_value)]

-----------------------------------------------------------------------------
(* The inputs of the model: wide tables as read_csv returns them. *)

\* ",".join(fields)
RECURSIVE JoinComma(_)
JoinComma(fields) ==
    IF Len(fields) = 1 THEN fields[1]
    ELSE fields[1] \o <<",">> \o JoinComma(Tail(fields))

Spaces(n) == [i \in 1..n |-> " "]

\* The year of the j-th year column: 2022, 2021, 2020, 2019, ...
YearName(j) == <<"2", "0", IF j <= 3 THEN "2" ELSE "1", <<"2", "1", "0", "9", "8">>[j]>>

\* The header of the j-th year column, padded as the source files pad theirs.
PaddedYear(j, pad) == Spaces(pad[1]) \o YearName(j) \o Spaces(pad[2])

Paddings == (0..MaxPad) \X (0..MaxPad)

\* The cell of row i under the j-th year column: a tonnage, distinct per place.
Tonnage(i, j) == 10 * i + j

\* A wide table: the compound column first_col, then the year columns.
WideTable(first_col, keys, pads, missing) ==
    [columns |-> <<first_col>> \o [j \in 1..Len(pads) |-> PaddedYear(j, pads[j])],
     rows |-> [i \in 1..Len(keys) |->
                  <<keys[i]>> \o [j \in 1..Len(pads) |->
                                    IF <<i, j>> \in missing THEN NaN ELSE Tonnage(i, j)]]]

\* Sequences over S of length 1..n.
SeqsUpTo(S, n) == UNION {[1..m -> S] : m \in 1..n}

s_A == <<"A">>
s_BE == <<"B", "E">>
s_FR == <<"F", "R">>
s_DE == <<"D", "E">>
s_GR == <<"G", "R">>
s_ZZ == <<"Z", "Z">>
s_Britain == <<"B", "r", "i", "t", "a", "i", "n">>
s_America == <<"A", "m", "e", "r", "i", "c", "a">>

\* Compound keys of 6, 6, 7 and 5 fields.
KeyBeFr == JoinComma(<<s_A, s_TOTAL, s_FR, s_TOTAL, s_THS_T, s_BE>>)
KeyBeDe == JoinComma(<<s_A, s_TOTAL, s_DE, s_TOTAL, s_THS_T, s_BE>>)
KeyCross == JoinComma(<<s_A, s_TOTAL, s_BE, s_FR, s_TOTAL, s_THS_T, s_BE>>)
KeyShort == JoinComma(<<s_A, s_TOTAL, s_FR, s_THS_T, s_BE>>)

\* The calls of lines 92 and 94: the names of the split columns and the header
\* of the compound column they come from; with each, the compound keys tried in
\* that column and the cells read as NaN.  The third is the call of line 92 on
\* a file whose compound header is padded too, first_col naming it as it is.
ReshapeCalls ==
    {[cols |-> lgtt_cols, first_col |-> lgtt_fc,
      keys |-> {KeyBeFr, KeyBeDe, KeyCross, KeyShort}, missing |-> {}],
     [cols |-> cross_cols, first_col |-> cross_fc,
      keys |-> {KeyCross, KeyBeFr}, missing |-> {<<1, 1>>}],
     [cols |-> lgtt_cols, first_col |-> <<" ">> \o lgtt_fc \o <<" ">>,
      keys |-> {KeyBeFr, KeyBeDe}, missing |-> {}]}

-----------------------------------------------------------------------------
(* Variables a specification does not use stay at these values. *)

NoResult == [err |-> "none", df |-> EmptyFrame]

ReshapeIdle ==
    /\ rs_pc = "idle" /\ rs_df = EmptyFrame /\ rs_cols = <<>>
    /\ rs_first_col = <<>> /\ rs_res = NoResult

CodesIdle == cc_pc = "idle" /\ country_codes = EmptyFrame

MergeIdle ==
    /\ mg_pc = "idle" /\ mg_df = EmptyFrame /\ mg_on = <<>> /\ mg_new = <<>>
    /\ mg_res = EmptyFrame

\* The exception that ended the script, and the line that raised it.
NoError == [type |-> "none", line |-> "none"]

NoFiles == [lgtt |-> EmptyFrame, ugtt |-> EmptyFrame, cross |-> EmptyFrame]

ScriptIdle ==
    /\ tsv = NoFiles /\ pc = "idle" /\ lgtt = EmptyFrame /\ ugtt = EmptyFrame /\ cross = EmptyFrame
    /\ cross_be_fr = NaN /\ lgtt_be_fr = NaN /\ ugtt_be_fr = NaN
    /\ printed = NaN /\ err = NoError

-----------------------------------------------------------------------------
(* A call of process_road_euro_stat on any wide table of the bounds. *)

ReshapeInit ==
    /\ \E call \in ReshapeCalls, pads \in SeqsUpTo(Paddings, MaxYears) :
         \E keys \in SeqsUpTo(call.keys, MaxRows) :
            /\ rs_cols = call.cols
            /\ rs_first_col = call.first_col
            /\ rs_df = WideTable(call.first_col, keys, pads, call.missing)
    /\ rs_pc = "call"
    /\ rs_res = NoResult
    /\ excel = EmptyFrame
    /\ CodesIdle /\ MergeIdle /\ ScriptIdle

ProcessRoadEuroStat ==
    /\ rs_pc = "call"
    /\ rs_res' = process_road_euro_stat(rs_df, rs_cols, rs_first_col)
    /\ rs_pc' = IF rs_res'.err = "none" THEN "returned" ELSE "raised"
    /\ UNCHANGED <<rs_df, rs_cols, rs_first_col, excel, codesVars, mergeVars,
                   scriptVars>>

ReshapeNext == ProcessRoadEuroStat

SpecReshape == ReshapeInit /\ [][ReshapeNext]_vars

-----------------------------------------------------------------------------
(* Claims about process_road_euro_stat, under SpecReshape. *)

\* Of the call in the state: the rows R, the year columns M, the names N, the
\* pieces of row i's compound value, and the melted frame.
RsR == NRows(rs_df)
RsM == NCols(rs_df) - 1
RsN == Len(rs_cols)
RsParts(i) == StrSplit(Column(rs_df, rs_first_col)[i])
RsWellFormed == \A i \in 1..RsR : Len(RsParts(i)) = RsN
RsWidest == SeqMax([i \in 1..RsR |-> Len(RsParts(i))])
RsTidy == rs_res.df
\* The cell of row i under the j-th year column, and that column's header.
RsCell(i, j) == rs_df.rows[i][j + 1]
RsHeader(j) == rs_df.columns[j + 1]
\* Re-pivoting the tidy frame: the values found at one key and one year.
RsPivot(key, year) ==
    {RsTidy.rows[n][RsN + 2] : n \in {m \in 1..NRows(RsTidy) :
        /\ SubSeq(RsTidy.rows[m], 1, RsN) = key
        /\ RsTidy.rows[m][RsN + 1] = year}}

\* C1: for a wide table of R >= 1 rows whose compound values all have exactly N
\* comma-separated fields, and M year columns, the call returns a frame of the N
\* key columns, TIME_PERIOD and value with exactly R x M rows; for every row and
\* every year column it holds the row of that row's N fields, the year's name
\* without its padding and the cell; and re-pivoting on the key and the year
\* finds exactly the cells of the rows with that key under that year.
C1_ReshapeRoundTrip ==
    (rs_pc # "call" /\ RsWellFormed) =>
        /\ rs_pc = "returned"
        /\ RsTidy.columns = rs_cols \o <<s_TIME_PERIOD, s_value>>
        /\ NRows(RsTidy) = RsR * RsM
        /\ \A i \in 1..RsR, j \in 1..RsM :
              /\ \E n \in 1..NRows(RsTidy) :
                    RsTidy.rows[n] = RsParts(i) \o <<YearName(j), RsCell(i, j)>>
              /\ RsPivot(RsParts(i), YearName(j)) =
                    {RsCell(k, j) : k \in {m \in 1..RsR : RsParts(m) = RsParts(i)}}

\* C1's case: two rows with different keys, two padded year columns, melted.
C1_Witness ==
    /\ rs_pc = "returned" /\ RsWellFormed
    /\ RsR = 2 /\ RsM = 2 /\ RsParts(1) # RsParts(2)
    /\ RsHeader(1) # YearName(1) /\ RsHeader(2) # YearName(2)
    /\ NRows(RsTidy) = 4

\* C4 as the spec states it: a compound value with more or fewer than N pieces
\* never makes the call raise.
C4_NeverRaises == (rs_pc # "call" /\ ~RsWellFormed) => rs_pc = "returned"

\* C4, amended: with some compound value of more or fewer than N pieces, the
\* call returns only when the longest value has exactly N pieces; the tidy frame
\* then has R x M rows, and a short row's pieces stand under the first names, in
\* order, with None under the names left over.  When the longest value has more
\* than N pieces, or every value has fewer, the call raises ValueError and
\* returns no frame.
C4_RaisesUnlessWidestIsN ==
    (rs_pc # "call" /\ ~RsWellFormed) =>
        IF RsWidest = RsN
        THEN /\ rs_pc = "returned" /\ rs_res.err = "none"
             /\ NRows(RsTidy) = RsR * RsM
             /\ \A i \in 1..RsR, j \in 1..RsM : \E n \in 1..NRows(RsTidy) :
                   /\ SubSeq(RsTidy.rows[n], RsN + 1, RsN + 2)
                         = <<YearName(j), RsCell(i, j)>>
                   /\ \A k \in 1..RsN :
                         RsTidy.rows[n][k] =
                            IF k <= Len(RsParts(i)) THEN RsParts(i)[k] ELSE None
        ELSE /\ rs_pc = "raised" /\ rs_res.err = "ValueError"
             /\ rs_res.df = EmptyFrame

\* C4's case: a short row beside a full one, returned with None in its last field.
C4_Witness ==
    /\ rs_pc = "returned" /\ ~RsWellFormed
    /\ \E n \in 1..NRows(RsTidy) :
          RsTidy.rows[n][RsN] = None /\ RsTidy.rows[n][RsN - 1] # None

\* The compound header as lines 83 and 89 write it, and the table of the state
\* with every header written without padding.
RsPlainHeader == IF rs_cols = cross_cols THEN cross_fc ELSE lgtt_fc
RsUnpadded ==
    [rs_df EXCEPT !.columns = <<RsPlainHeader>> \o [j \in 1..RsM |-> YearName(j)]]

-----------------------------------------------------------------------------
(* get_country_codes *)

\* df.loc[df[where] == key, target] = new
SetWhere(df, where, key, target, new) ==
    [df EXCEPT !.rows =
        [i \in 1..NRows(df) |->
            IF At(df, df.rows[i], where) = key
            THEN [df.rows[i] EXCEPT ![ColIndex(df, target)] = new]
            ELSE df.rows[i]]]

\* The two dicts of lines 38 and 39, in their iteration order.
country_updates == <<<<s_US, s_UnitedStates>>, <<s_GB, s_UnitedKingdom>>,
                     <<s_NL, s_Netherlands>>, <<s_MD, s_Moldova>>>>
code_updates == <<<<s_Greece, s_EL>>, <<s_UnitedKingdom, s_UK>>>>

\* The loop of lines 41-42 over the first n items: names rewritten by code.
RECURSIVE ApplyCountryUpdates(_, _)
ApplyCountryUpdates(df, n) ==
    IF n = 0 THEN df
    ELSE SetWhere(ApplyCountryUpdates(df, n - 1), s_Alpha2, country_updates[n][1],
                  s_Country, country_updates[n][2])

\* The loop of lines 44-45 over the first n items: codes rewritten by name.
RECURSIVE ApplyCodeUpdates(_, _)
ApplyCodeUpdates(df, n) ==
    IF n = 0 THEN df
    ELSE SetWhere(ApplyCodeUpdates(df, n - 1), s_Country, code_updates[n][1],
                  s_Alpha2, code_updates[n][2])

\* The corrections made in the other order: codes by name first, then names.
CorrectionsCodesFirst(df) ==
    ApplyCountryUpdates(ApplyCodeUpdates(df, Len(code_updates)), Len(country_updates))

\* The corrections that forget the last code rewrite (United Kingdom -> UK).
CorrectionsWithoutUK(df) ==
    ApplyCodeUpdates(ApplyCountryUpdates(df, Len(country_updates)),
                     Len(code_updates) - 1)

\* Lines 41-45: both loops, names first.
Corrections(df) ==
    ApplyCodeUpdates(ApplyCountryUpdates(df, Len(country_updates)), Len(code_updates))

\* Lines 47-48.
new_row_df == [columns |-> <<s_Country, s_Alpha2, s_Alpha3, s_Numeric>>,
               rows |-> <<<<s_Kosovo, s_XK, s_XKO, 9999>>>>]

\* pd.concat([a, b], ignore_index=True) of two frames with the same columns.
ConcatRows(a, b) == [columns |-> a.columns, rows |-> a.rows \o b.rows]

\* The whole function, on the sheet read at line 37.
get_country_codes(sheet) == ConcatRows(Corrections(sheet), new_row_df)

-----------------------------------------------------------------------------
(* merge_and_rename *)

RECURSIVE Flatten(_)
Flatten(qs) == IF qs = <<>> THEN <<>> ELSE Head(qs) \o Flatten(Tail(qs))

\* df[labels]
SelectColumns(df, labels) ==
    [columns |-> labels,
     rows |-> [i \in 1..NRows(df) |->
                  [k \in 1..Len(labels) |-> At(df, df.rows[i], labels[k])]]]

\* The rows of right whose right_on cell equals key, in order.
Matches(right, right_on, key) ==
    SelectIdx(right.rows,
              {j \in 1..NRows(right) : At(right, right.rows[j], right_on) = key},
              NRows(right))

\* left.merge(right, how="inner", ...): a left row without a match is dropped.
MergeInner(left, right, left_on, right_on) ==
    [columns |-> left.columns \o right.columns,
     rows |-> Flatten([i \in 1..NRows(left) |->
                 LET m == Matches(right, right_on, At(left, left.rows[i], left_on))
                 IN [j \in 1..Len(m) |-> left.rows[i] \o m[j]]])]

\* left.merge(right, how="left", left_on=left_on, right_on=right_on): the left
\* rows in order, each once per matching right row (in right's order) with that
\* row's cells, or once with missing cells when no right row matches.
MergeLeft(left, right, left_on, right_on) ==
    [columns |-> left.columns \o right.columns,
     rows |-> Flatten([i \in 1..NRows(left) |->
                 LET m == Matches(right, right_on, At(left, left.rows[i], left_on))
                 IN IF m = <<>>
                    THEN <<left.rows[i] \o [k \in 1..NCols(right) |-> None]>>
                    ELSE [j \in 1..Len(m) |-> left.rows[i] \o m[j]]])]

\* df.rename(columns={old: new})
RenameColumn(df, old, new) ==
    [df EXCEPT !.columns =
        [j \in 1..NCols(df) |-> IF df.columns[j] = old THEN new ELSE df.columns[j]]]

\* The function with how="inner" at line 69.
merge_inner_and_rename(df, merge_on, new_column_name, sheet) ==
    LET codes == get_country_codes(sheet)
        merged == MergeInner(df, SelectColumns(codes, <<s_Country, s_Alpha2>>),
                             merge_on, s_Alpha2)
    IN DropColumns(RenameColumn(merged, s_Country, new_column_name), {s_Alpha2})

\* The whole function; sheet is what get_country_codes reads at this call.
merge_and_rename(df, merge_on, new_column_name, sheet) ==
    LET codes == get_country_codes(sheet)
        merged == MergeLeft(df, SelectColumns(codes, <<s_Country, s_Alpha2>>),
                            merge_on, s_Alpha2)
    IN DropColumns(RenameColumn(merged, s_Country, new_column_name), {s_Alpha2})

-----------------------------------------------------------------------------
(* The inputs of the model: country sheets. *)

\* Rows a sheet may hold: ISO rows, a row already named and coded as the
\* corrections would, a Kosovo row, and rows whose name is a key of
\* code_updates while their code is a key of country_updates.
SheetRows ==
    { <<s_Belgium, s_BE, <<"B", "E", "L">>, 56>>,
      <<s_France, s_FR, <<"F", "R", "A">>, 250>>,
      <<s_Greece, s_GR, <<"G", "R", "C">>, 300>>,
      <<s_Britain, s_GB, <<"G", "B", "R">>, 826>>,
      <<s_UnitedKingdom, s_UK, <<"G", "B", "R">>, 826>>,
      <<s_America, s_US, <<"U", "S", "A">>, 840>>,
      <<s_Kosovo, s_XK, <<"X", "K", "X">>, 983>>,
      <<s_Greece, s_US, <<"U", "S", "A">>, 840>>,
      <<s_UnitedKingdom, s_NL, <<"N", "L", "D">>, 528>> }

Sheets ==
    {[columns |-> <<s_Country, s_Alpha2, s_Alpha3, s_Numeric>>, rows |-> r] :
        r \in {<<>>} \cup SeqsUpTo(SheetRows, MaxCountries)}

-----------------------------------------------------------------------------
(* A call of get_country_codes on any sheet of the bounds. *)

CodesInit ==
    /\ excel \in Sheets
    /\ cc_pc = "call"
    /\ country_codes = EmptyFrame
    /\ ReshapeIdle /\ MergeIdle /\ ScriptIdle

GetCountryCodes ==
    /\ cc_pc = "call"
    /\ country_codes' = get_country_codes(excel)
    /\ cc_pc' = "returned"
    /\ UNCHANGED <<excel, reshapeVars, mergeVars, scriptVars>>

CodesNext == GetCountryCodes

SpecCodes == CodesInit /\ [][CodesNext]_vars

-----------------------------------------------------------------------------
(* Claims about get_country_codes, under SpecCodes. *)

CcName(df, i) == At(df, df.rows[i], s_Country)
CcCode(df, i) == At(df, df.rows[i], s_Alpha2)
\* The rows of df with the 2-letter code c.
CcWithCode(df, c) == {i \in 1..NRows(df) : CcCode(df, i) = c}

\* C2 as the spec states it: whatever sheet is read, the returned table holds
\* exactly one row with the 2-letter code XK.
C2_ExactlyOneXK ==
    cc_pc = "returned" => Cardinality(CcWithCode(country_codes, s_XK)) = 1

\* C6: the names are rewritten before the codes: a row whose code in the sheet
\* is GB is returned named United Kingdom with code UK, whatever its name was;
\* every returned row named Greece has code EL, and so has every row of the
\* sheet named Greece whose name no name rewrite replaces; no returned row has
\* code GB.
C6_NamesBeforeCodes ==
    cc_pc = "returned" =>
        /\ \A i \in 1..NRows(excel) :
              /\ CcCode(excel, i) = s_GB =>
                    /\ CcName(country_codes, i) = s_UnitedKingdom
                    /\ CcCode(country_codes, i) = s_UK
              /\ (/\ CcName(excel, i) = s_Greece
                  /\ CcCode(excel, i) \notin {s_US, s_GB, s_NL, s_MD}) =>
                    /\ CcName(country_codes, i) = s_Greece
                    /\ CcCode(country_codes, i) = s_EL
        /\ \A i \in 1..NRows(country_codes) :
              CcName(country_codes, i) = s_Greece => CcCode(country_codes, i) = s_EL
        /\ CcWithCode(country_codes, s_GB) = {}

\* C6's case: a sheet with a GB row under another name and a Greece row.
C6_Witness ==
    /\ cc_pc = "returned"
    /\ \E i, j \in 1..NRows(excel) :
          /\ CcCode(excel, i) = s_GB /\ CcName(excel, i) = s_Britain
          /\ CcCode(country_codes, i) = s_UK
          /\ CcName(excel, j) = s_Greece /\ CcCode(excel, j) = s_GR
          /\ CcCode(country_codes, j) = s_EL

\* C7: making the two rewrites again on the returned table changes no row: the
\* corrections made twice are the corrections made once.
C7_CorrectionsIdempotent ==
    cc_pc = "returned" =>
        /\ Corrections(country_codes) = country_codes
        /\ Corrections(Corrections(excel)) = Corrections(excel)

\* C7's case: a sheet whose rows the corrections did change, name and code.
C7_Witness ==
    /\ cc_pc = "returned"
    /\ \E i \in 1..NRows(excel) :
          /\ CcName(country_codes, i) # CcName(excel, i)
          /\ CcCode(country_codes, i) # CcCode(excel, i)
    /\ \E i \in 1..NRows(excel) : CcName(excel, i) = s_Greece

-----------------------------------------------------------------------------
(* A call of merge_and_rename on a tidy table and any sheet of the bounds. *)

\* A compound key of the lgtt table unloading in country code c, reported by BE.
KeyUnloadIn(c) == JoinComma(<<s_A, s_TOTAL, c, s_TOTAL, s_THS_T, s_BE>>)

\* Codes to look up: Kosovo's, the corrected code of the United Kingdom, and
\* one no sheet holds.
MergeKeys == {KeyUnloadIn(s_XK), KeyUnloadIn(s_UK), KeyUnloadIn(s_ZZ)}

\* The calls of lines 97 and 98.
MergeCalls == {<<s_c_unload, s_unload_country>>, <<s_geo, s_geo_country>>}

MergeInit ==
    /\ excel \in Sheets
    /\ \E keys \in SeqsUpTo(MergeKeys, MaxRows), call \in MergeCalls :
          /\ mg_df = process_road_euro_stat(
                         WideTable(lgtt_fc, keys, <<<<0, 0>>>>, {}), lgtt_cols, lgtt_fc).df
          /\ mg_on = call[1]
          /\ mg_new = call[2]
    /\ mg_pc = "call"
    /\ mg_res = EmptyFrame
    /\ ReshapeIdle /\ CodesIdle /\ ScriptIdle

MergeAndRename ==
    /\ mg_pc = "call"
    /\ mg_res' = merge_and_rename(mg_df, mg_on, mg_new, excel)
    /\ mg_pc' = "returned"
    /\ UNCHANGED <<mg_df, mg_on, mg_new, excel, reshapeVars, codesVars, scriptVars>>

MergeNext == MergeAndRename

SpecMerge == MergeInit /\ [][MergeNext]_vars

-----------------------------------------------------------------------------
(* Claims about merge_and_rename, under SpecMerge. *)

\* The corrected table the call joins with, and input row i's code.
MgCodes == get_country_codes(excel)
MgKey(i) == At(mg_df, mg_df.rows[i], mg_on)
\* The output rows made from input row i: those that repeat its cells.
MgFrom(i) == {n \in 1..NRows(mg_res) :
                 SubSeq(mg_res.rows[n], 1, NCols(mg_df)) = mg_df.rows[i]}
MgName(n) == At(mg_res, mg_res.rows[n], mg_new)

\* C5: the join is a left join.  The output has the input's columns and the new
\* name column; an input row whose code is the 2-letter code of some row of the
\* corrected table is in the output, always with the name of a row with that
\* code and never with a missing name; an input row whose code the corrected
\* table lacks is kept, once, with a missing name.
C5_LeftJoin ==
    mg_pc = "returned" =>
        /\ mg_res.columns = mg_df.columns \o <<mg_new>>
        /\ \A i \in 1..NRows(mg_df) :
              /\ MgFrom(i) # {}
              /\ IF CcWithCode(MgCodes, MgKey(i)) # {}
                 THEN \A n \in MgFrom(i) :
                         /\ MgName(n) # None
                         /\ \E j \in CcWithCode(MgCodes, MgKey(i)) :
                               MgName(n) = CcName(MgCodes, j)
                 ELSE \A n \in MgFrom(i) : MgName(n) = None
        /\ \A n \in 1..NRows(mg_res) : \E i \in 1..NRows(mg_df) : n \in MgFrom(i)
        /\ (\A i \in 1..NRows(mg_df) : CcWithCode(MgCodes, MgKey(i)) = {})
              => NRows(mg_res) = NRows(mg_df)

\* C5's case: one input row whose code the table has, one whose code it lacks.
C5_Witness ==
    /\ mg_pc = "returned" /\ NRows(mg_df) = 2 /\ NRows(mg_res) = 2
    /\ MgKey(1) = s_UK /\ MgName(1) = s_UnitedKingdom
    /\ MgKey(2) = s_ZZ /\ MgName(2) = None

\* C10 as the claim states it: the output has one row per input row, in the
\* input's order, with the input's cells unchanged, whatever the sheet.
C10_RowsPreserved ==
    mg_pc = "returned" =>
        /\ NRows(mg_res) = NRows(mg_df)
        /\ \A i \in 1..NRows(mg_df) :
              SubSeq(mg_res.rows[i], 1, NCols(mg_df)) = mg_df.rows[i]

-----------------------------------------------------------------------------
(* The script: lines 77-129. *)

\* df[mask]: the rows at the positions in mask, in order.
FilterRows(df, mask) == [df EXCEPT !.rows = SelectIdx(df.rows, mask, NRows(df))]

\* The conditions every table is filtered on (lines 106-109, 112-115, 118-121).
TotalsOf2022(df, i) ==
    /\ At(df, df.rows[i], s_tra_type) = s_TOTAL
    /\ At(df, df.rows[i], s_unit) = s_THS_T
    /\ At(df, df.rows[i], s_nst07) = s_TOTAL
    /\ At(df, df.rows[i], s_TIME_PERIOD) = s_2022

\* Lines 106-110 without the condition on unit.
lgtt_filter_without_unit(df) ==
    FilterRows(df, {i \in 1..NRows(df) :
        /\ At(df, df.rows[i], s_tra_type) = s_TOTAL
        /\ At(df, df.rows[i], s_nst07) = s_TOTAL
        /\ At(df, df.rows[i], s_TIME_PERIOD) = s_2022
        /\ StrLen(At(df, df.rows[i], s_c_unload)) = 2})

\* Lines 106-110.
lgtt_filter(df) ==
    FilterRows(df, {i \in 1..NRows(df) :
        TotalsOf2022(df, i) /\ StrLen(At(df, df.rows[i], s_c_unload)) = 2})

\* Lines 112-116.
ugtt_filter(df) ==
    FilterRows(df, {i \in 1..NRows(df) :
        TotalsOf2022(df, i) /\ StrLen(At(df, df.rows[i], s_c_load)) = 2})

\* Lines 118-123.
cross_filter(df) ==
    FilterRows(df, {i \in 1..NRows(df) :
        /\ TotalsOf2022(df, i)
        /\ StrLen(At(df, df.rows[i], s_c_load)) = 2
        /\ StrLen(At(df, df.rows[i], s_c_unload)) = 2})

\* df[(df.from_col == "Belgium") & (df.to_col == "France")].value, as a sequence.
BelgiumToFrance(df, from_col, to_col) ==
    Column(FilterRows(df, {i \in 1..NRows(df) :
                              /\ At(df, df.rows[i], from_col) = s_Belgium
                              /\ At(df, df.rows[i], to_col) = s_France}),
           s_value)

\* Series.sum(): NaN terms are skipped, the empty sum is 0.
RECURSIVE SumSkipNa(_)
SumSkipNa(q) ==
    IF q = <<>> THEN 0
    ELSE (IF Head(q) = NaN THEN 0 ELSE Head(q)) + SumSkipNa(Tail(q))

\* a + b on floats: NaN if either is.
Plus(a, b) == IF a = NaN \/ b = NaN THEN NaN ELSE a + b

\* A lookup that insists on exactly one element.
ValuesOnly(q) ==
    IF Len(q) = 1 THEN [err |-> "none", value |-> q[1]]
    ELSE [err |-> "IndexError", value |-> NaN]

\* series.values[0]: the first element; IndexError on an empty array.
ValuesFirst(q) ==
    IF q = <<>> THEN [err |-> "IndexError", value |-> NaN]
    ELSE [err |-> "none", value |-> q[1]]

-----------------------------------------------------------------------------
(* The inputs of the script. *)

s_MIO_TKM == <<"M", "I", "O", "_", "T", "K", "M">>

\* Rows of the lgtt file: Belgium's report of goods unloaded in France, the
\* same for Germany (a code the sheets lack), and the France row in another unit.
LgttKeys == {KeyBeFr, KeyBeDe, JoinComma(<<s_A, s_TOTAL, s_FR, s_TOTAL, s_MIO_TKM, s_BE>>)}
\* Rows of the ugtt file: France's report of goods loaded in Belgium, and in Germany.
UgttKeys == {JoinComma(<<s_A, s_TOTAL, s_BE, s_TOTAL, s_THS_T, s_FR>>),
             JoinComma(<<s_A, s_TOTAL, s_DE, s_TOTAL, s_THS_T, s_FR>>)}
\* Rows of the cross-trade file: Belgium to France, and France to Belgium.
CrossKeys == {KeyCross, JoinComma(<<s_A, s_TOTAL, s_FR, s_BE, s_TOTAL, s_THS_T, s_BE>>)}

\* The year headers of the three files: "2022" alone, or "2022 " and "2021 ".
ScriptHeaders == {<<<<0, 0>>>>, <<<<0, 1>>, <<0, 1>>>>}

RowBelgium == <<s_Belgium, s_BE, <<"B", "E", "L">>, 56>>
RowFrance == <<s_France, s_FR, <<"F", "R", "A">>, 250>>
RowGreece == <<s_Greece, s_GR, <<"G", "R", "C">>, 300>>

\* Sheets that hold Belgium and France: once each, and with the Belgium row
\* twice.
ScriptSheets ==
    {[columns |-> <<s_Country, s_Alpha2, s_Alpha3, s_Numeric>>, rows |-> r] :
        r \in {<<RowGreece, RowFrance, RowBelgium>>,
               <<RowBelgium, RowFrance, RowBelgium>>}}

Init ==
    /\ excel \in ScriptSheets
    /\ \E pads \in ScriptHeaders, l \in SeqsUpTo(LgttKeys, MaxRows),
          u \in SeqsUpTo(UgttKeys, MaxRows), c \in SeqsUpTo(CrossKeys, MaxRows) :
          tsv = [lgtt |-> WideTable(lgtt_fc, l, pads, {}),
                 ugtt |-> WideTable(ugtt_fc, u, pads, {}),
                 cross |-> WideTable(cross_fc, c, pads, {<<1, 1>>})]
    /\ lgtt = tsv.lgtt /\ ugtt = tsv.ugtt /\ cross = tsv.cross
    /\ pc = "L92"
    /\ cross_be_fr = NaN /\ lgtt_be_fr = NaN /\ ugtt_be_fr = NaN
    /\ printed = NaN /\ err = NoError
    /\ ReshapeIdle /\ CodesIdle /\ MergeIdle

\* Lines 92-94: the three tables are reshaped; the first call that raises ends
\* the script.
Processing ==
    /\ pc = "L92"
    /\ LET l == process_road_euro_stat(lgtt, lgtt_cols, lgtt_fc)
           u == process_road_euro_stat(ugtt, ugtt_cols, ugtt_fc)
           c == process_road_euro_stat(cross, cross_cols, cross_fc)
       IN IF l.err # "none"
          THEN /\ err' = [type |-> l.err, line |-> "L92"] /\ pc' = "aborted"
               /\ UNCHANGED <<lgtt, ugtt, cross>>
          ELSE IF u.err # "none"
          THEN /\ err' = [type |-> u.err, line |-> "L93"] /\ pc' = "aborted"
               /\ lgtt' = l.df /\ UNCHANGED <<ugtt, cross>>
          ELSE IF c.err # "none"
          THEN /\ err' = [type |-> c.err, line |-> "L94"] /\ pc' = "aborted"
               /\ lgtt' = l.df /\ ugtt' = u.df /\ UNCHANGED cross
          ELSE /\ lgtt' = l.df /\ ugtt' = u.df /\ cross' = c.df
               /\ pc' = "L97" /\ UNCHANGED err
    /\ UNCHANGED <<tsv, cross_be_fr, lgtt_be_fr, ugtt_be_fr, printed, excel,
                   reshapeVars, codesVars, mergeVars>>

\* Lines 97-104: each table gets the names of its two country codes.
Annotating ==
    /\ pc = "L97"
    /\ lgtt' = merge_and_rename(
                   merge_and_rename(lgtt, s_c_unload, s_unload_country, excel),
                   s_geo, s_geo_country, excel)
    /\ ugtt' = merge_and_rename(
                   merge_and_rename(ugtt, s_c_load, s_load_country, excel),
                   s_geo, s_geo_country, excel)
    /\ cross' = merge_and_rename(
                    merge_and_rename(cross, s_c_load, s_load_country, excel),
                    s_c_unload, s_unload_country, excel)
    /\ pc' = "L106"
    /\ UNCHANGED <<tsv, cross_be_fr, lgtt_be_fr, ugtt_be_fr, printed, err, excel,
                   reshapeVars, codesVars, mergeVars>>

\* Lines 106-123: each table keeps its 2022 totals in thousand tonnes between
\* two-letter codes.
Filtering ==
    /\ pc = "L106"
    /\ lgtt' = lgtt_filter(lgtt)
    /\ ugtt' = ugtt_filter(ugtt)
    /\ cross' = cross_filter(cross)
    /\ pc' = "L125"
    /\ UNCHANGED <<tsv, cross_be_fr, lgtt_be_fr, ugtt_be_fr, printed, err, excel,
                   reshapeVars, codesVars, mergeVars>>

\* Line 125.
SumCross ==
    /\ pc = "L125"
    /\ cross_be_fr' = SumSkipNa(BelgiumToFrance(cross, s_load_country, s_unload_country))
    /\ pc' = "L126"
    /\ UNCHANGED <<tsv, lgtt, ugtt, cross, lgtt_be_fr, ugtt_be_fr, printed, err,
                   excel, reshapeVars, codesVars, mergeVars>>

\* Line 126.
LookupLgtt ==
    /\ pc = "L126"
    /\ LET r == ValuesFirst(BelgiumToFrance(lgtt, s_geo_country, s_unload_country))
       IN IF r.err # "none"
          THEN /\ err' = [type |-> r.err, line |-> "L126"] /\ pc' = "aborted"
               /\ UNCHANGED lgtt_be_fr
          ELSE lgtt_be_fr' = r.value /\ pc' = "L127" /\ UNCHANGED err
    /\ UNCHANGED <<tsv, lgtt, ugtt, cross, cross_be_fr, ugtt_be_fr, printed,
                   excel, reshapeVars, codesVars, mergeVars>>

\* Line 127.
LookupUgtt ==
    /\ pc = "L127"
    /\ LET r == ValuesFirst(BelgiumToFrance(ugtt, s_load_country, s_geo_country))
       IN IF r.err # "none"
          THEN /\ err' = [type |-> r.err, line |-> "L127"] /\ pc' = "aborted"
               /\ UNCHANGED ugtt_be_fr
          ELSE ugtt_be_fr' = r.value /\ pc' = "L129" /\ UNCHANGED err
    /\ UNCHANGED <<tsv, lgtt, ugtt, cross, cross_be_fr, lgtt_be_fr, printed,
                   excel, reshapeVars, codesVars, mergeVars>>

\* Line 129.
PrintTotal ==
    /\ pc = "L129"
    /\ printed' = Plus(Plus(cross_be_fr, lgtt_be_fr), ugtt_be_fr)
    /\ pc' = "done"
    /\ UNCHANGED <<tsv, lgtt, ugtt, cross, cross_be_fr, lgtt_be_fr, ugtt_be_fr,
                   err, excel, reshapeVars, codesVars, mergeVars>>

Next ==
    \/ Processing
    \/ Annotating
    \/ Filtering
    \/ SumCross
    \/ LookupLgtt
    \/ LookupUgtt
    \/ PrintTotal

Spec == Init /\ [][Next]_vars

-----------------------------------------------------------------------------
(* Claims about the script, under Spec. *)

\* The values line 125, line 126 and line 127 select from the filtered tables.
CrossPair == BelgiumToFrance(cross, s_load_country, s_unload_country)
LgttPair == BelgiumToFrance(lgtt, s_geo_country, s_unload_country)
UgttPair == BelgiumToFrance(ugtt, s_load_country, s_geo_country)
AbortedAt(line) == pc = "aborted" /\ err.line = line
\* Line 126 has returned; line 127 has returned.
PastL126 == pc \in {"L127", "L129", "done"} \/ AbortedAt("L127")
PastL127 == pc \in {"L129", "done"}

\* C3 as the spec states it: each of the lookups of lines 126 and 127 returns
\* only when exactly one row matches the pair.
C3_LookupNeedsExactlyOne ==
    /\ PastL126 => Len(LgttPair) = 1
    /\ PastL127 => Len(UgttPair) = 1

\* C3, amended: line 125 sums the matching rows of the cross table, however
\* many, none included, and never fails.  The lookups of lines 126 and 127 fail
\* with IndexError exactly when no row matches; with one matching row or more
\* they return the value of the first, and further matching rows go unnoticed.
C3_LookupFailsOnlyOnNone ==
    /\ err.line # "L125"
    /\ (pc \in {"L126", "L127", "L129", "done"} \/ AbortedAt("L126") \/ AbortedAt("L127"))
          => cross_be_fr = SumSkipNa(CrossPair)
    /\ AbortedAt("L126") => (LgttPair = <<>> /\ err.type = "IndexError")
    /\ PastL126 => (LgttPair # <<>> /\ lgtt_be_fr = LgttPair[1])
    /\ AbortedAt("L127") => (UgttPair = <<>> /\ err.type = "IndexError")
    /\ PastL127 => (UgttPair # <<>> /\ ugtt_be_fr = UgttPair[1])

\* C3's case: the script ends although two rows of lgtt match the pair and no
\* row of cross does.
C3_Witness ==
    /\ pc = "done" /\ Len(LgttPair) = 2 /\ Len(UgttPair) = 1 /\ CrossPair = <<>>
    /\ cross_be_fr = 0

\* The scenario of C8: an lgtt file of two rows and the one year column "2022",
\* exactly one row being Belgium's report of goods unloaded in France (totals,
\* thousand tonnes), and a sheet with one Belgium row and one France row.
C8_Scenario ==
    /\ NRows(tsv.lgtt) = 2 /\ tsv.lgtt.columns = <<lgtt_fc, s_2022>>
    /\ Cardinality({i \in 1..2 : tsv.lgtt.rows[i][1] = KeyBeFr}) = 1
    /\ Cardinality(CcWithCode(excel, s_BE)) = 1
    /\ Cardinality(CcWithCode(excel, s_FR)) = 1
C8_SourceCell == tsv.lgtt.rows[CHOOSE i \in 1..2 : tsv.lgtt.rows[i][1] = KeyBeFr][2]

\* C8: in that scenario, once the tables are filtered, selecting the pair
\* Belgium/France from lgtt gives exactly one row, whose value is the cell of
\* the source row; line 126 returns that value.
C8_EndToEnd ==
    C8_Scenario =>
        /\ (pc \in {"L125", "L126"} \/ PastL126) => LgttPair = <<C8_SourceCell>>
        /\ ~AbortedAt("L126")
        /\ PastL126 => lgtt_be_fr = C8_SourceCell

\* C8's case: the scenario, with the France row in another unit as second row,
\* run past line 126.
C8_Witness ==
    /\ C8_Scenario /\ PastL126
    /\ tsv.lgtt.rows[1][1] = KeyBeFr /\ tsv.lgtt.rows[2][1] # KeyBeDe
    /\ lgtt_be_fr = Tonnage(1, 1)

=============================================================================
